---- MODULE Spec2Model ----
(***************************************************************************)
(* Model of opendutchwordnet/synset.py: the Synset view over one XML       *)
(* element.  The element tree is modelled with the operations the class    *)
(* uses (find, iterfind, SubElement, append, getparent, remove) under both *)
(* XML libraries the module can import (lines 4-7): lxml, where an element *)
(* has one parent and append moves it, and xml.etree.ElementTree, where    *)
(* append only extends the child list and getparent does not exist.        *)
(*                                                                         *)
(* Strings that are only compared are TLA+ strings.  Relation types are    *)
(* sequences of characters, because relations() formats the type into an   *)
(* XPath string literal (line 97) and the outcome depends on its           *)
(* characters.                                                             *)
(***************************************************************************)
EXTENDS Naturals, Sequences, FiniteSets, TLC

VARIABLES lib,        \* which XML library the import at lines 4-7 bound to etree
          doc,        \* the element tree: tag, attributes and children of each element
          synset_el,  \* self.synset_el
          refs_el,    \* self.refs_el, cached by __init__
          defs_els,   \* self.defs_els, cached by __init__
          view,       \* identity of the current Synset object over synset_el
          ncalls,     \* number of mutating calls made so far
          last        \* the last call: operation, arguments, outcome

vars == <<lib, doc, synset_el, refs_el, defs_els, view, ncalls, last>>

---------------------------------------------------------------------------
(* Bounds of the model *)

MaxCalls == 3
MaxInitRels == 2
MaxDefs == 2

---------------------------------------------------------------------------
(* Values *)

None == 0
Absent == "<None>"
NoAttrs == [x \in {} |-> ""]

has_hyperonym == <<"h", "y", "p", "e", "r">>
has_hyponym == <<"h", "y", "p", "o">>
odd_type == <<"x", "\"">>

\* constructor arguments reltypes and syn_ids (the known vocabularies)
reltypes == {has_hyperonym, has_hyponym}
syn_ids == {"s1", "s2"}

RelTypeInputs == reltypes \cup {odd_type}
TargetInputs == syn_ids \cup {"sX"}
Languages == {"en", "nl", "de"}
DefaultLanguages == {"en", "nl"}

Libs == {"lxml", "etree"}

\* how the error kinds of the specification appear in the code
DuplicateRelation == "ValueError"
DetachedNodeError == "AttributeError"

---------------------------------------------------------------------------
(* The element tree and the library operations the class calls *)

Elems(d) == 1..Len(d.tag)

Get(d, e, name) ==
    IF name \in DOMAIN d.attrs[e] THEN d.attrs[e][name] ELSE Absent

ChildrenWithTag(d, e, t) ==
    LET HasTag(c) == d.tag[c] = t
    IN  SelectSeq(d.children[e], HasTag)

RECURSIVE Flatten(_)
Flatten(ss) == IF ss = <<>> THEN <<>> ELSE Head(ss) \o Flatten(Tail(ss))

Find(d, e, t) ==
    LET cs == ChildrenWithTag(d, e, t)
    IN  IF cs = <<>> THEN None ELSE Head(cs)

\* iterfind("t1/t2"): for every child tagged t1, in order, its children tagged t2
IterFind(d, e, t1, t2) ==
    LET cs == ChildrenWithTag(d, e, t1)
    IN  Flatten([i \in 1..Len(cs) |-> ChildrenWithTag(d, cs[i], t2)])

NewEl(d) == Len(d.tag) + 1

SubElement(d, parent, t, attrib) ==
    [tag      |-> Append(d.tag, t),
     attrs    |-> Append(d.attrs, attrib),
     children |-> Append([d.children EXCEPT ![parent] = Append(@, NewEl(d))], <<>>)]

Without(s, e) ==
    LET Other(c) == c # e
    IN  SelectSeq(s, Other)

ElAppend(l, d, parent, e) ==
    IF l = "lxml"
    THEN [d EXCEPT !.children =
            [p \in DOMAIN d.children |->
                IF p = parent THEN Append(Without(d.children[p], e), e)
                              ELSE Without(d.children[p], e)]]
    ELSE [d EXCEPT !.children[parent] = Append(@, e)]

IsChild(d, p, e) == \E i \in 1..Len(d.children[p]) : d.children[p][i] = e

ParentOf(d, e) ==
    IF \E p \in Elems(d) : IsChild(d, p, e)
    THEN CHOOSE p \in Elems(d) : IsChild(d, p, e)
    ELSE None

ElRemove(d, parent, e) == [d EXCEPT !.children[parent] = Without(@, e)]

---------------------------------------------------------------------------
(* Collaborators that are not in synset.py *)

\* Relation view: get_reltype() and get_target() of one relation element
RelationPair(d, e) == <<Get(d, e, "relType"), Get(d, e, "target")>>

\* the validation errors validate_relation may raise for (source, type, target);
\* the empty set when the relation is valid
ValidationErrors(source, reltype, target) ==
    (IF reltype \in reltypes THEN {} ELSE {"InvalidRelationType"})
        \cup (IF target \in syn_ids THEN {} ELSE {"InvalidTarget"})

---------------------------------------------------------------------------
(* Synset: accessors *)

Id(d, syn) == Get(d, syn, "id")

GlossesNoFilter(d, defs, languages) ==
    IF defs # None
    THEN LET els == ChildrenWithTag(d, defs, "Definition")
         IN  [i \in 1..Len(els) |-> Get(d, els[i], "gloss")]
    ELSE <<>>

Glosses(d, defs, languages) ==
    IF defs # None
    THEN LET InLanguages(e) == Get(d, e, "language") \in languages
             els == SelectSeq(ChildrenWithTag(d, defs, "Definition"), InLanguages)
         IN  [i \in 1..Len(els) |-> Get(d, els[i], "gloss")]
    ELSE <<>>

AllRelations(d, syn) ==
    LET els == IterFind(d, syn, "SynsetRelations", "SynsetRelation")
    IN  [i \in 1..Len(els) |-> RelationPair(d, els[i])]

\* the XPath string literal "%s" ends at the first double quote of the text
\* formatted into it; what follows it up to the closing bracket is then no
\* predicate (the inputs drawn contain no bracket), a SyntaxError
HasQuote(s) == \E i \in 1..Len(s) : s[i] = "\""

Relations(d, syn, reltype) ==
    IF HasQuote(reltype)
    THEN [result |-> "SyntaxError", value |-> <<>>]
    ELSE LET cs == ChildrenWithTag(d, syn, "SynsetRelations")
             Matches(e) == Get(d, e, "relType") = reltype
             els == Flatten([i \in 1..Len(cs) |->
                        SelectSeq(ChildrenWithTag(d, cs[i], "SynsetRelation"), Matches)])
         IN  [result |-> "ok",
              value  |-> [i \in 1..Len(els) |-> RelationPair(d, els[i])]]

---------------------------------------------------------------------------
(* Synset: mutators *)

RemoveOutcomeSilent(l, d, syn) ==
    IF l = "etree"
    THEN [doc |-> d, result |-> "AttributeError"]
    ELSE LET parent == ParentOf(d, syn)
         IN  IF parent = None
             THEN [doc |-> d, result |-> "ok"]
             ELSE [doc |-> ElRemove(d, parent, syn), result |-> "ok"]

\* remove(): ElementTree elements have no getparent; lxml's getparent() is
\* None for an element without parent, and None has no remove
RemoveOutcome(l, d, syn) ==
    IF l = "etree"
    THEN [doc |-> d, result |-> "AttributeError"]
    ELSE LET parent == ParentOf(d, syn)
         IN  IF parent = None
             THEN [doc |-> d, result |-> "AttributeError"]
             ELSE [doc |-> ElRemove(d, parent, syn), result |-> "ok"]

IsDuplicateNever(d, syn, reltype, target) == FALSE

IsDuplicate(d, syn, reltype, target) ==
    LET existing_rels == AllRelations(d, syn)
    IN  \E i \in 1..Len(existing_rels) : existing_rels[i] = <<reltype, target>>

\* the tree after lines 130-140, before the final append
WithNewElements(l, d, syn, refs, reltype, target) ==
    LET d1 == IF refs = None
              THEN ElAppend(l, SubElement(d, syn, "SynsetRelations", NoAttrs),
                            syn, NewEl(d))
              ELSE d
    IN  SubElement(d1, syn, "SynsetRelation",
                   [provenance |-> "odwn", relType |-> reltype, target |-> target])

AddRelationValidateLast(l, d, syn, refs, reltype, target, verr) ==
    LET d2 == WithNewElements(l, d, syn, refs, reltype, target)
        done == IF refs = None
                THEN [doc |-> d2, result |-> "AttributeError"]
                ELSE [doc |-> ElAppend(l, d2, refs, Len(d2.tag)), result |-> "ok"]
    IN  IF IsDuplicate(d, syn, reltype, target)
        THEN [doc |-> d, result |-> "ValueError"]
        ELSE IF verr # "ok" THEN [doc |-> done.doc, result |-> verr] ELSE done

\* add_relation(reltype, target); verr is what validate_relation raised, or "ok"
AddRelationOutcome(l, d, syn, refs, reltype, target, verr) ==
    IF verr # "ok"
    THEN [doc |-> d, result |-> verr]
    ELSE IF IsDuplicate(d, syn, reltype, target)
    THEN [doc |-> d, result |-> "ValueError"]
    ELSE LET d2 == WithNewElements(l, d, syn, refs, reltype, target)
             new_rel_el == Len(d2.tag)
         IN  IF refs = None
             THEN [doc |-> d2, result |-> "AttributeError"]
             ELSE [doc |-> ElAppend(l, d2, refs, new_rel_el), result |-> "ok"]

---------------------------------------------------------------------------
(* Documents the view is constructed over *)

RECURSIVE AddAll(_, _, _, _)
AddAll(d, parent, t, attribs) ==
    IF attribs = <<>> THEN d
    ELSE AddAll(SubElement(d, parent, t, Head(attribs)), parent, t, Tail(attribs))

SeqsUpTo(S, n) == UNION {[1..k -> S] : k \in 0..n}

NoDuplicates(s) == \A i, j \in 1..Len(s) : s[i] = s[j] => i = j

DefinitionAttrs ==
    {[gloss |-> "g1", language |-> "en", provenance |-> "pwn"],
     [gloss |-> "g2", language |-> "de", provenance |-> "pwn"],
     [gloss |-> "g3", language |-> "nl", provenance |-> "odwn"],
     [gloss |-> "g4", provenance |-> "odwn"]}

\* relations of the parsed document: targets are not checked against the
\* graph, and the type is any attribute value
InitRelationAttrs ==
    {[provenance |-> "pwn", relType |-> has_hyperonym, target |-> "s1"],
     [provenance |-> "pwn", relType |-> has_hyponym, target |-> "sX"],
     [provenance |-> "pwn", relType |-> odd_type, target |-> "s2"]}

\* the Synset element alone: the document root
SynsetOnly ==
    [tag      |-> <<"Synset">>,
     attrs    |-> <<[id |-> "eng-30-00324560-v", ili |-> "i23355"]>>,
     children |-> << <<>> >>]

\* the Synset element between two siblings under a Synsets element
UnderParent(d) ==
    LET n == Len(d.tag)
        sib(i) == [id |-> i]
    IN  [tag      |-> d.tag \o <<"Synsets", "Synset", "Synset">>,
         attrs    |-> d.attrs \o <<NoAttrs, sib("eng-30-00322847-v"), sib("eng-30-00325085-v")>>,
         children |-> d.children \o << <<n + 2, 1, n + 3>>, <<>>, <<>> >>]

WithDefinitions(d, defs) ==
    IF ~defs.present THEN d
    ELSE AddAll(SubElement(d, 1, "Definitions", NoAttrs), NewEl(d), "Definition", defs.items)

WithRelations(d, rels) ==
    IF ~rels.present THEN d
    ELSE AddAll(SubElement(d, 1, "SynsetRelations", NoAttrs), NewEl(d), "SynsetRelation", rels.items)

Sections(S, n) ==
    {[present |-> FALSE, items |-> <<>>]}
        \cup {[present |-> TRUE, items |-> s] : s \in SeqsUpTo(S, n)}

Document(attached, defs, rels) ==
    LET d == WithRelations(WithDefinitions(SynsetOnly, defs), rels)
    IN  IF attached THEN UnderParent(d) ELSE d

NoCall == [op |-> "none", reltype |-> <<>>, target |-> "", given |-> FALSE,
           languages |-> {}, result |-> "ok", value |-> <<>>]

\* the state after Synset(synset_el, reltypes, syn_ids) over a parsed document
Constructed(defsChoices, relsChoices) ==
    /\ lib \in Libs
    /\ \E attached \in BOOLEAN, defs \in defsChoices, rels \in relsChoices :
            doc = Document(attached, defs, rels)
    /\ synset_el = 1
    /\ defs_els = Find(doc, synset_el, "Definitions")
    /\ refs_el = Find(doc, synset_el, "SynsetRelations")
    /\ view = 1
    /\ ncalls = 0
    /\ last = NoCall

TwoDefinitions ==
    <<[gloss |-> "g1", language |-> "en", provenance |-> "pwn"],
      [gloss |-> "g2", language |-> "de", provenance |-> "pwn"]>>

\* documents that differ in their relations only
Init ==
    Constructed({[present |-> TRUE, items |-> TwoDefinitions]},
                {r \in Sections(InitRelationAttrs, MaxInitRels) : NoDuplicates(r.items)})

\* documents that differ in their definitions only
InitGlosses ==
    Constructed(Sections(DefinitionAttrs, MaxDefs),
                {[present |-> FALSE, items |-> <<>>]})

---------------------------------------------------------------------------
(* Calls *)

\* Synset(synset_el, reltypes, syn_ids) again over the same element
Construct ==
    /\ ncalls < MaxCalls
    /\ defs_els' = Find(doc, synset_el, "Definitions")
    /\ refs_el' = Find(doc, synset_el, "SynsetRelations")
    /\ view' = view + 1
    /\ ncalls' = ncalls + 1
    /\ last' = [NoCall EXCEPT !.op = "__init__"]
    /\ UNCHANGED <<lib, doc, synset_el>>

CallGlosses ==
    \E given \in BOOLEAN, langs \in SUBSET Languages :
        /\ given \/ langs = {}
        /\ last' = [NoCall EXCEPT !.op = "glosses", !.given = given, !.languages = langs,
                        !.value = Glosses(doc, defs_els,
                                          IF given THEN langs ELSE DefaultLanguages)]
        /\ UNCHANGED <<lib, doc, synset_el, refs_el, defs_els, view, ncalls>>

CallAllRelations ==
    /\ last' = [NoCall EXCEPT !.op = "all_relations",
                              !.value = AllRelations(doc, synset_el)]
    /\ UNCHANGED <<lib, doc, synset_el, refs_el, defs_els, view, ncalls>>

CallRelations ==
    \E reltype \in RelTypeInputs :
        LET out == Relations(doc, synset_el, reltype)
        IN  /\ last' = [NoCall EXCEPT !.op = "relations", !.reltype = reltype,
                                      !.result = out.result, !.value = out.value]
            /\ UNCHANGED <<lib, doc, synset_el, refs_el, defs_els, view, ncalls>>

CallRemove ==
    /\ ncalls < MaxCalls
    /\ LET out == RemoveOutcome(lib, doc, synset_el)
       IN  /\ doc' = out.doc
           /\ last' = [NoCall EXCEPT !.op = "remove", !.result = out.result]
    /\ ncalls' = ncalls + 1
    /\ UNCHANGED <<lib, synset_el, refs_el, defs_els, view>>

CallAddRelation ==
    /\ ncalls < MaxCalls
    /\ \E reltype \in RelTypeInputs, target \in TargetInputs :
        LET source == Id(doc, synset_el)
            errs == ValidationErrors(source, reltype, target)
        IN  \E verr \in (IF errs = {} THEN {"ok"} ELSE errs) :
              LET out == AddRelationOutcome(lib, doc, synset_el, refs_el,
                                            reltype, target, verr)
              IN  /\ doc' = out.doc
                  /\ last' = [NoCall EXCEPT !.op = "add_relation", !.reltype = reltype,
                                            !.target = target, !.result = out.result]
    /\ ncalls' = ncalls + 1
    /\ UNCHANGED <<lib, synset_el, refs_el, defs_els, view>>

Next ==
    \/ Construct
    \/ CallGlosses
    \/ CallAllRelations
    \/ CallRelations
    \/ CallRemove
    \/ CallAddRelation

Spec == Init /\ [][Next]_vars

NextGlosses ==
    \/ Construct
    \/ CallGlosses

SpecGlosses == InitGlosses /\ [][NextGlosses]_vars

---------------------------------------------------------------------------
(* Vocabulary of the claims *)

IsAdd(c) == c.op = "add_relation"
Pair(c) == <<c.reltype, c.target>>
IsValid(c) == c.reltype \in reltypes /\ c.target \in syn_ids
Enumerated(d, pair) ==
    \E i \in 1..Len(AllRelations(d, synset_el)) : AllRelations(d, synset_el)[i] = pair
Containers(d) == ChildrenWithTag(d, synset_el, "SynsetRelations")
ValidationKinds == {"InvalidRelationType", "InvalidTarget"}

\* C1: a valid pair that is not yet among the node's relations is added without
\* error, and all_relations() then yields its former entries, in order, followed
\* by the new pair.
C1_AddAppendsOneRelation ==
    [][(IsAdd(last') /\ IsValid(last') /\ ~Enumerated(doc, Pair(last')))
        => /\ last'.result = "ok"
           /\ AllRelations(doc', synset_el)
                = Append(AllRelations(doc, synset_el), Pair(last'))]_vars

\* C2: add_relation of a pair that all_relations() already enumerates fails with
\* DuplicateRelation and leaves the element tree unchanged.
C2_DuplicateRejected ==
    [][(IsAdd(last') /\ Enumerated(doc, Pair(last')))
        => (last'.result = DuplicateRelation /\ doc' = doc)]_vars

\* C2 (amended): add_relation of an already enumerated pair leaves the element
\* tree and the relations unchanged; it fails with DuplicateRelation when type
\* and target are in the known sets, and with the validation error otherwise.
C2_ValidDuplicateRejected ==
    [][(IsAdd(last') /\ Enumerated(doc, Pair(last')))
        => /\ doc' = doc
           /\ AllRelations(doc', synset_el) = AllRelations(doc, synset_el)
           /\ IsValid(last') => last'.result = DuplicateRelation
           /\ ~IsValid(last') => last'.result \in ValidationKinds]_vars

\* a duplicate of a pair that an earlier add_relation put there was rejected
C2_Witness ==
    /\ IsAdd(last) /\ IsValid(last) /\ last.result = DuplicateRelation
    /\ \E e \in Elems(doc) :
        /\ doc.tag[e] = "SynsetRelation"
        /\ Get(doc, e, "provenance") = "odwn"
        /\ RelationPair(doc, e) = Pair(last)
        /\ refs_el # None /\ IsChild(doc, refs_el, e)

\* C3: add_relation with an unknown type fails with InvalidRelationType, with an
\* unknown target with InvalidTarget (one of the two when both are unknown), and
\* the element tree is unchanged.
C3_ValidationBeforeMutation ==
    [][(IsAdd(last') /\ ~IsValid(last'))
        => /\ doc' = doc
           /\ last'.result \in ValidationKinds
           /\ last'.result = "InvalidRelationType" => last'.reltype \notin reltypes
           /\ last'.result = "InvalidTarget" => last'.target \notin syn_ids]_vars

\* an unknown type was rejected on a node without container, where the
\* mutation would have created one
C3_Witness ==
    /\ IsAdd(last) /\ last.result = "InvalidRelationType"
    /\ last.target \in syn_ids
    /\ ~Enumerated(doc, Pair(last))
    /\ refs_el = None

\* C4: the relations of the node contain no duplicate (type, target) pair.
C4_NoDuplicateRelations == NoDuplicates(AllRelations(doc, synset_el))

\* C5: remove() on an attached node succeeds and takes the element out of its
\* parent's children, the other children keeping their order.
C5_RemoveDetaches ==
    [][(last'.op = "remove" /\ ParentOf(doc, synset_el) # None)
        => LET parent == ParentOf(doc, synset_el)
           IN  /\ last'.result = "ok"
               /\ ~IsChild(doc', parent, synset_el)
               /\ doc'.children[parent] = Without(doc.children[parent], synset_el)]_vars

\* C6: remove() on a node without parent fails with DetachedNodeError and
\* changes nothing; a node never regains a parent, and a remove() right after
\* a remove() fails.
C6_RemoveWithoutParentFails ==
    [][/\ (last'.op = "remove" /\ ParentOf(doc, synset_el) = None)
            => (last'.result = DetachedNodeError /\ doc' = doc)
       /\ ParentOf(doc, synset_el) = None => ParentOf(doc', synset_el) = None
       /\ last'.op = "remove" => (last'.result = "ok" => ParentOf(doc', synset_el) = None)
       /\ (last.op = "remove" /\ last'.op = "remove")
            => last'.result = DetachedNodeError]_vars

\* the second remove() on a node the first one detached
C6_Witness ==
    /\ last.op = "remove" /\ last.result = DetachedNodeError
    /\ lib = "lxml"
    /\ ParentOf(doc, synset_el) = None
    /\ \E e \in Elems(doc) : doc.tag[e] = "Synsets"

\* C7: relations(type) is the entries of all_relations() whose type is type,
\* in the same order (none for a type that is not present).
C7_RelationsIsFilteredAllRelations ==
    \A t \in RelTypeInputs :
        LET HasType(pair) == pair[1] = t
        IN  Relations(doc, synset_el, t)
              = [result |-> "ok",
                 value  |-> SelectSeq(AllRelations(doc, synset_el), HasType)]

\* the gloss texts of the Definition children es whose language is in languages
RECURSIVE GlossTexts(_, _, _)
GlossTexts(d, es, languages) ==
    IF es = <<>> THEN <<>>
    ELSE (IF d.tag[Head(es)] = "Definition"
             /\ "language" \in DOMAIN d.attrs[Head(es)]
             /\ d.attrs[Head(es)].language \in languages
          THEN <<Get(d, Head(es), "gloss")>> ELSE <<>>)
         \o GlossTexts(d, Tail(es), languages)

\* C8: glosses(languages) is the gloss texts of the definitions whose language
\* is requested, in document order; empty without a definitions section; the
\* languages are {"en", "nl"} when none are given.
C8_GlossesFiltered ==
    last.op = "glosses"
        => LET section == Find(doc, synset_el, "Definitions")
               requested == IF last.given THEN last.languages ELSE {"en", "nl"}
           IN  last.value = IF section = None THEN <<>>
                            ELSE GlossTexts(doc, doc.children[section], requested)

\* the default call kept one of two definitions
C8_Witness ==
    /\ last.op = "glosses" /\ ~last.given
    /\ defs_els # None /\ Len(doc.children[defs_els]) = 2
    /\ last.value = <<"g3">>

\* C9: a valid new pair on a node without container creates exactly one
\* container under the node, holding only the new relation element; with a
\* container, no container is created and the element becomes its last child.
C9_ContainerCreatedOnce ==
    [][(IsAdd(last') /\ IsValid(last') /\ ~Enumerated(doc, Pair(last')))
        => LET new == Len(doc'.tag)
               attrs == [provenance |-> "odwn", relType |-> last'.reltype,
                         target |-> last'.target]
           IN  /\ doc'.tag[new] = "SynsetRelation" /\ doc'.attrs[new] = attrs
               /\ IF Containers(doc) = <<>>
                  THEN /\ Len(Containers(doc')) = 1
                       /\ doc'.children[Containers(doc')[1]] = <<new>>
                  ELSE /\ Containers(doc') = Containers(doc)
                       /\ doc'.children[Containers(doc)[1]]
                            = Append(doc.children[Containers(doc)[1]], new)]_vars

WellFormed(d) ==
    /\ Len(Containers(d)) <= 1
    /\ \A e \in Elems(d) : \A i \in 1..Len(d.children[e]) :
          d.tag[d.children[e][i]] = "SynsetRelation"
              => (Containers(d) # <<>> /\ e = Containers(d)[1])

\* C10: through one Synset view the node keeps at most one container, and
\* every relation element is a child of it.
C10_StructurePreserved == view = 1 => WellFormed(doc)

====
